---- MODULE Spec2Model ----
(***************************************************************************)
(* Model of the FileForge chunking engine                                  *)
(* (packages/common/services/conversion/chunking/chunker.py) and of the    *)
(* element container it reads (extractors/base.py).                        *)
(*                                                                         *)
(* Text is a sequence of one-character strings.  None, the empty list and  *)
(* the empty string are all written << >> (the code only tests their       *)
(* truthiness); a missing page number is 0 (also falsy in the code).       *)
(***************************************************************************)
EXTENDS Integers, Sequences, FiniteSets, TLC

(***************************************************************************)
(* Bounds of the model.                                                    *)
(***************************************************************************)
MaxLen == 4          \* longest content of a one-element stream of the Fixed strategy
MaxElems == 2        \* most elements given to the None / Semantic strategy
MaxRows == 2         \* most data rows of a table
MaxChunks == 4       \* the Fixed loop is followed until it holds this many chunks
MaxBack == 3         \* the Fixed loop is followed while start >= -MaxBack
MaxSectionElems == 4 \* most elements of a document with two headings
MaxCalls == 2        \* most calls of chunk() with the same arguments
MaxIterations == 8   \* the loop of POST /convert is followed for this many chunks
MaxRequests == 3     \* concurrent requests made with one API key
MaxDocChunks == 2    \* most chunks one conversion of the document stores
MaxReprocess == 2    \* most reprocess requests made for the document

(***************************************************************************)
(* Characters.                                                             *)
(***************************************************************************)
NL == "\n"
Alphabet == {"a", "A", ".", " "}
IsSpace(c) == c \in {" ", NL, "\t"}
IsPunct(c) == c \in {".", "!", "?"}
IsUpper(c) ==
  c \in {"A", "B", "C", "D", "E", "F", "G", "H", "I", "J", "K", "L", "M",
         "N", "O", "P", "Q", "R", "S", "T", "U", "V", "W", "X", "Y", "Z"}

Min(a, b) == IF a < b THEN a ELSE b
Max(a, b) == IF a > b THEN a ELSE b

\* all texts over alphabet S of length at most n
Texts(S, n) == UNION {[1..k -> S] : k \in 0..n}

(***************************************************************************)
(* Python string primitives.                                               *)
(***************************************************************************)
RECURSIVE LStrip(_)
LStrip(s) == IF s # << >> /\ IsSpace(Head(s)) THEN LStrip(Tail(s)) ELSE s

RECURSIVE RStrip(_)
RStrip(s) ==
  IF s # << >> /\ IsSpace(s[Len(s)]) THEN RStrip(SubSeq(s, 1, Len(s) - 1)) ELSE s

\* str.strip()
Strip(s) == RStrip(LStrip(s))

\* an index of a slice, clamped the way Python clamps it
SliceIndex(i, n) == IF i < 0 THEN Max(i + n, 0) ELSE Min(i, n)

\* s[lo:hi], negative indices counting from the end
PySlice(s, lo, hi) ==
  LET a == SliceIndex(lo, Len(s))
      b == SliceIndex(hi, Len(s))
  IN  IF a >= b THEN << >> ELSE SubSeq(s, a + 1, b)

\* s[::-1]
Reverse(s) == [k \in 1..Len(s) |-> s[Len(s) + 1 - k]]

\* sep.join(parts)
RECURSIVE Join(_, _)
Join(parts, sep) ==
  IF parts = << >> THEN << >>
  ELSE IF Len(parts) = 1 THEN parts[1]
  ELSE parts[1] \o sep \o Join(Tail(parts), sep)

\* "".join(parts)
RECURSIVE Flatten(_)
Flatten(parts) ==
  IF parts = << >> THEN << >> ELSE Head(parts) \o Flatten(Tail(parts))

(***************************************************************************)
(* State.  The first four variables are the fields of the Chunker; the     *)
(* others are the arguments and locals of the chunk() call in progress.    *)
(***************************************************************************)
VARIABLES
  chunk_size,        \* Chunker.chunk_size
  chunk_overlap,     \* Chunker.chunk_overlap
  use_token_count,   \* Chunker.use_token_count
  encoder,           \* Chunker.encoder: TRUE when a tokenizer was loaded
  pc,                \* "idle", "none", "chars", "tokens", "semantic", "done";
                     \* "raised" when chunk() was left by an exception
  strategy,          \* the strategy argument of chunk()
  result,            \* the ExtractionResult argument of chunk()
  text,              \* full_text of _chunk_fixed
  pos,               \* number of elements consumed by the None / Semantic loop
  start,             \* window start of the Fixed loop
  chunks,            \* the list of chunks built so far; returned when pc = "done"
  chunk_idx,         \* next chunk index of the Fixed / Semantic loop
  current_section,   \* _chunk_semantic: label of the latest heading
  current_elements,  \* _chunk_semantic: the buffer
  current_size,      \* _chunk_semantic: the running size of the buffer
  spans,             \* history: stream range [lo, hi) of each Fixed chunk, before trimming
  origins,           \* history: positions of the elements each chunk was built from
  hash_seed,         \* the seed of str hashes of the running Python process
  calls,             \* number of calls of chunk() made so far
  previous,          \* the chunks returned by the call before the current one
  convert_file,      \* POST /convert: the parameters and the locals of its Fixed loop
  api_key,           \* the APIKey of the requests: rate_limit_rpm, rate_limit_rpd
  redis,             \* the two counters of the key: 0 when the Redis key is absent
  requests,          \* where each request stands in check_rate_limit
  db,                \* the committed rows: the Document and its Chunk rows
  queue,             \* the convert_document tasks the broker holds
  worker,            \* the worker running convert_document, and its session
  api                \* the reprocess_document request, and its session

vars == <<chunk_size, chunk_overlap, use_token_count, encoder, pc, strategy,
          result, text, pos, start, chunks, chunk_idx, current_section,
          current_elements, current_size, spans, origins, hash_seed, calls,
          previous, convert_file, api_key, redis, requests, db, queue, worker,
          api>>

limiterVars == <<api_key, redis, requests>>
pipelineVars == <<db, queue, worker, api>>
serviceVars == <<convert_file, limiterVars, pipelineVars>>

chunkerVars == <<chunk_size, chunk_overlap, use_token_count, encoder>>
semanticVars == <<current_section, current_elements, current_size>>
processVars == <<hash_seed, calls, previous>>

(***************************************************************************)
(* The tokenizer (tiktoken, an external library): a text is cut into       *)
(* tokens of one to TokenWidth characters; decoding concatenates them.     *)
(* encode() raises ValueError on a text that holds a special token such as *)
(* "<|endoftext|>", written here as the one character Special.             *)
(***************************************************************************)
TokenWidth == 2
Special == "#"

\* self.encoder.encode(s) raises
EncodeRaises(s) == \E k \in 1..Len(s) : s[k] = Special

\* the number of characters of the first token of a text that is not
\* empty: a whitespace character is a token of its own, other characters
\* are merged up to TokenWidth at a time
TokenLen(s) ==
  IF IsSpace(s[1]) THEN 1
  ELSE IF \E k \in 1..Min(TokenWidth, Len(s)) : IsSpace(s[k])
       THEN (CHOOSE k \in 1..Min(TokenWidth, Len(s)) :
               IsSpace(s[k]) /\ \A h \in 1..(k - 1) : ~IsSpace(s[h])) - 1
       ELSE Min(TokenWidth, Len(s))

RECURSIVE Encode(_)
Encode(s) ==
  IF s = << >> THEN << >>
  ELSE <<SubSeq(s, 1, TokenLen(s))>>
         \o Encode(SubSeq(s, TokenLen(s) + 1, Len(s)))

Decode(tokens) == Flatten(tokens)

(***************************************************************************)
(* Chunker.count_tokens and Chunker._get_size                              *)
(***************************************************************************)
\* count_tokens catches the exception of the encoder and estimates
count_tokens(s) ==
  IF encoder /\ ~EncodeRaises(s) THEN Len(Encode(s)) ELSE Len(s) \div 4

\* _get_size has no try/except: the exception of the encoder leaves it
_get_size_raises(s) == use_token_count /\ encoder /\ EncodeRaises(s)

_get_size(s) ==
  IF use_token_count /\ encoder THEN Len(Encode(s)) ELSE Len(s)

(***************************************************************************)
(* Chunker._split_into_sentences: re.split(r"(?<=[.!?])\s+", text), the    *)
(* pieces stripped and the empty ones dropped.                             *)
(***************************************************************************)
\* last index of the whitespace run that starts at index i
RECURSIVE SpaceRunEnd(_, _)
SpaceRunEnd(s, i) ==
  IF i < Len(s) /\ IsSpace(s[i + 1]) THEN SpaceRunEnd(s, i + 1) ELSE i

\* re.split: the pieces between the matches, scanning from index i with the
\* piece cur under construction
RECURSIVE ReSplit(_, _, _)
ReSplit(s, i, cur) ==
  IF i > Len(s) THEN <<cur>>
  ELSE IF i > 1 /\ IsPunct(s[i - 1]) /\ IsSpace(s[i])
       THEN <<cur>> \o ReSplit(s, SpaceRunEnd(s, i) + 1, << >>)
       ELSE ReSplit(s, i + 1, Append(cur, s[i]))

RECURSIVE StripNonEmpty(_)
StripNonEmpty(parts) ==
  IF parts = << >> THEN << >>
  ELSE IF Strip(Head(parts)) # << >>
       THEN <<Strip(Head(parts))>> \o StripNonEmpty(Tail(parts))
       ELSE StripNonEmpty(Tail(parts))

_split_into_sentences(s) == StripNonEmpty(ReSplit(s, 1, << >>))

(***************************************************************************)
(* Chunker._adjust_to_sentence_boundary: re.search(r"[.!?]\s*[A-Z]") on    *)
(* the REVERSED text; the cut is kept only past half of the text.          *)
(***************************************************************************)
\* the pattern [.!?]\s*[A-Z] matches r starting at (1-based) index i
BoundaryAt(r, i) ==
  /\ IsPunct(r[i])
  /\ \E j \in (i + 1)..Len(r) :
       /\ IsUpper(r[j])
       /\ \A k \in (i + 1)..(j - 1) : IsSpace(r[k])

\* match.start() of re.search (0-based), or -1 when there is no match
SearchBoundary(r) ==
  IF \E i \in 1..Len(r) : BoundaryAt(r, i)
  THEN (CHOOSE i \in 1..Len(r) :
          BoundaryAt(r, i) /\ \A h \in 1..(i - 1) : ~BoundaryAt(r, h)) - 1
  ELSE -1

_adjust_to_sentence_boundary(s) ==
  LET m == SearchBoundary(Reverse(s))
      end_pos == Len(s) - m
  IN  IF m >= 0 /\ 2 * end_pos > Len(s) THEN PySlice(s, 0, end_pos) ELSE s

(***************************************************************************)
(* Tables.  A row is a sequence of cells, a cell is a text.                *)
(***************************************************************************)
\* str(row) of a list of plain strings: ['h', 'r']
PyStrList(row) ==
  <<"[">> \o Join([k \in 1..Len(row) |-> <<"'">> \o row[k] \o <<"'">>], <<",", " ">>)
          \o <<"]">>

\* " | ".join(str(cell) for cell in row)
RowText(row) == Join(row, <<" ", "|", " ">>)

\* Chunker._table_to_markdown
_table_to_markdown(table_data) ==
  IF table_data = << >> THEN << >>
  ELSE LET header == <<"|", " ">> \o RowText(table_data[1]) \o <<" ", "|">>
           rule == <<"|", " ">>
                     \o Join([k \in 1..Len(table_data[1]) |-> <<"-", "-", "-">>],
                             <<" ", "|", " ">>)
                     \o <<" ", "|">>
           rows == [k \in 1..(Len(table_data) - 1) |->
                      <<"|", " ">> \o RowText(table_data[k + 1]) \o <<" ", "|">>]
       IN  Join(<<header, rule>> \o rows, <<NL>>)

\* ExtractionResult._table_to_text
_table_to_text(table_data) ==
  IF table_data = << >> THEN << >>
  ELSE Join([k \in 1..Len(table_data) |-> RowText(table_data[k])], <<NL>>)

(***************************************************************************)
(* ExtractionResult.get_raw_text                                           *)
(***************************************************************************)
RECURSIVE RawTexts(_)
RawTexts(elements) ==
  IF elements = << >> THEN << >>
  ELSE LET el == Head(elements)
           rest == RawTexts(Tail(elements))
       IN  IF el.element_type = "table" /\ el.table_data # << >>
           THEN <<_table_to_text(el.table_data)>> \o rest
           ELSE IF el.element_type = "image" /\ el.image_description # << >>
           THEN <<<<"[", "I", "m", "a", "g", "e", ":", " ">>
                    \o el.image_description \o <<"]">>>> \o rest
           ELSE IF el.content # << >>
           THEN <<el.content>> \o rest
           ELSE rest

get_raw_text(r) ==
  IF r.raw_text # << >> THEN r.raw_text
  ELSE Join(RawTexts(r.elements), <<NL, NL>>)

(***************************************************************************)
(* ProcessedChunk and the metadata helpers of the Chunker.                 *)
(* element_types, source_pages and source_sections are modelled as sets    *)
(* (ProcessedChunk.to_dict reads the lists through set()); the order in    *)
(* which list(set(...)) lists the kinds is kept in element_types_list.     *)
(***************************************************************************)
\* the kinds of elements, in the order of the enum
ElementKinds == <<"text", "title", "heading", "table", "image">>

KindRank(kind) == CHOOSE i \in 1..Len(ElementKinds) : ElementKinds[i] = kind

\* the str hashes of the process place x before y in a set
HashedBefore(x, y) ==
  IF hash_seed = 0 THEN KindRank(x) <= KindRank(y) ELSE KindRank(x) >= KindRank(y)

\* list(set(kinds)): the iteration order of a set of str follows their
\* hashes, which depend on the seed of the process
RECURSIVE ListOfSet(_)
ListOfSet(kinds) ==
  IF kinds = {} THEN << >>
  ELSE LET x == CHOOSE x \in kinds : \A y \in kinds : HashedBefore(x, y)
       IN  <<x>> \o ListOfSet(kinds \ {x})

ProcessedChunk(index, txt, token_count, char_count, types, pages, sections, meta) ==
  [index |-> index, text |-> txt, token_count |-> token_count,
   char_count |-> char_count, element_types |-> types,
   element_types_list |-> ListOfSet(types), source_pages |-> pages,
   source_sections |-> sections, metadata |-> meta]

_get_element_types(elements) ==
  {elements[k].element_type : k \in 1..Len(elements)}

_get_source_pages(elements) ==
  {elements[k].page_number : k \in {h \in 1..Len(elements) : elements[h].page_number # 0}}

_get_source_sections(elements) ==
  {elements[k].section : k \in {h \in 1..Len(elements) : elements[h].section # << >>}}

\* [element.page_number] if element.page_number else []
ElementPages(element) ==
  IF element.page_number # 0 THEN {element.page_number} ELSE {}

\* [element.section] if element.section else []
ElementSections(element) ==
  IF element.section # << >> THEN {element.section} ELSE {}

(***************************************************************************)
(* Chunker._create_chunk_from_elements.  The Optional result is a sequence *)
(* of no chunk (None) or one chunk.                                        *)
(***************************************************************************)
RECURSIVE ElementTexts(_)
ElementTexts(elements) ==
  IF elements = << >> THEN << >>
  ELSE LET el == Head(elements)
           rest == ElementTexts(Tail(elements))
       IN  IF el.element_type = "table" /\ el.table_data # << >>
           THEN <<el.content>> \o rest
           ELSE IF Strip(el.content) # << >>
           THEN <<Strip(el.content)>> \o rest
           ELSE rest

\* the text.strip() test that decides whether a chunk is made of the buffer
BufferHasText(txt) == Strip(txt) # << >>

_create_chunk_from_elements(index, elements, section) ==
  IF elements = << >> THEN << >>
  ELSE LET txt == Join(ElementTexts(elements), <<NL, NL>>)
       IN  IF ~BufferHasText(txt) THEN << >>
           ELSE <<ProcessedChunk(index, txt, count_tokens(txt), Len(txt),
                                 _get_element_types(elements),
                                 _get_source_pages(elements),
                                 IF section # << >> THEN {section} ELSE {},
                                 << >>)>>

(***************************************************************************)
(* Chunker._split_large_table                                              *)
(***************************************************************************)
TableChunk(element, chunk_index, current_rows) ==
  LET chunk_text == _table_to_markdown(current_rows)
  IN  ProcessedChunk(chunk_index, chunk_text, count_tokens(chunk_text),
                     Len(chunk_text), {"table"}, ElementPages(element),
                     ElementSections(element), << >>)

\* the test that closes the current group of rows before the next row
TableGroupFull(size, row_size, current_rows) ==
  size + row_size > chunk_size /\ Len(current_rows) > 1

\* (variant: a last group of one data row is not emitted)
TableHasTwoRows(current_rows) == Len(current_rows) > 2

\* the test that emits the last group of rows
TableHasRows(current_rows) == Len(current_rows) > 1

\* (variant: the group after a full one starts without the header)
NextGroupNoHeader(header, row) == <<row>>

\* the group after a full one: the header again, then the row that did not fit
NextGroup(header, row) == <<header, row>>

\* the loop over table_data[1:], rows being the rows still to place
RECURSIVE TableRows(_, _, _, _, _, _)
TableRows(element, header, rows, current_rows, size, chunk_index) ==
  IF rows = << >>
  THEN IF TableHasRows(current_rows)
       THEN <<TableChunk(element, chunk_index, current_rows)>>
       ELSE << >>
  ELSE LET row == Head(rows)
           row_size == _get_size(PyStrList(row))
       IN  IF TableGroupFull(size, row_size, current_rows)
           THEN <<TableChunk(element, chunk_index, current_rows)>>
                  \o TableRows(element, header, Tail(rows), NextGroup(header, row),
                               _get_size(PyStrList(header)) + row_size,
                               chunk_index + 1)
           ELSE TableRows(element, header, Tail(rows), Append(current_rows, row),
                          size + row_size, chunk_index)

_split_large_table(element, start_index) ==
  IF element.table_data = << >> THEN << >>
  ELSE LET header == element.table_data[1]
       IN  TableRows(element, header, Tail(element.table_data), <<header>>,
                     _get_size(PyStrList(header)), start_index)

(***************************************************************************)
(* Chunker._split_large_element                                            *)
(***************************************************************************)
\* the chunk made of the packed sentences current_text
SentenceChunk(element, chunk_index, current_text) ==
  ProcessedChunk(chunk_index, Strip(current_text), count_tokens(current_text),
                 Len(current_text), {element.element_type},
                 ElementPages(element), ElementSections(element), << >>)

\* (variant: the sentence that did not fit is dropped)
RestartTextEmpty(sentence) == << >>

\* current_text after a flush: the sentence that did not fit
RestartText(sentence) == sentence \o <<" ">>

\* the loop over the sentences still to pack
RECURSIVE PackSentences(_, _, _, _, _)
PackSentences(element, sentences, current_text, size, chunk_index) ==
  IF sentences = << >>
  THEN IF Strip(current_text) # << >>
       THEN <<SentenceChunk(element, chunk_index, current_text)>>
       ELSE << >>
  ELSE LET sentence == Head(sentences)
           sentence_size == _get_size(sentence)
       IN  IF size + sentence_size > chunk_size /\ current_text # << >>
           THEN <<SentenceChunk(element, chunk_index, current_text)>>
                  \o PackSentences(element, Tail(sentences), RestartText(sentence),
                                   sentence_size, chunk_index + 1)
           ELSE PackSentences(element, Tail(sentences),
                              current_text \o sentence \o <<" ">>,
                              size + sentence_size, chunk_index)

_split_large_element(element, start_index) ==
  IF element.element_type = "table" /\ element.table_data # << >>
  THEN _split_large_table(element, start_index)
  ELSE PackSentences(element, _split_into_sentences(element.content), << >>, 0,
                     start_index)

\* some _get_size call of _split_large_element / _split_large_table raises:
\* every row of the table, or every sentence of the text, is measured
_split_large_element_raises(element) ==
  IF element.element_type = "table" /\ element.table_data # << >>
  THEN \E k \in 1..Len(element.table_data) :
         _get_size_raises(PyStrList(element.table_data[k]))
  ELSE \E k \in 1..Len(_split_into_sentences(element.content)) :
         _get_size_raises(_split_into_sentences(element.content)[k])

(***************************************************************************)
(* Inputs: the elements and results a call of chunk() is given.            *)
(***************************************************************************)
ExtractedElement(type, content, page, section, table_data) ==
  [element_type |-> type, content |-> content, page_number |-> page,
   section |-> section, metadata |-> << >>, table_data |-> table_data,
   image_description |-> << >>]

ExtractionResult(elements) == [elements |-> elements, raw_text |-> << >>]

\* the element with the metadata dict meta, a sequence of <<key, value>> pairs
WithMetadata(element, meta) == [element EXCEPT !.metadata = meta]

\* metadata of a table of a spreadsheet
SheetMetadata == << << <<"k">>, <<"v">> >> >>

HeaderRow == <<<<"h", "h">>>>
DataRow == <<<<"r">>>>

\* table_data of a Table element: a header followed by 0..MaxRows data rows
TableDatas == {<<HeaderRow>> \o [k \in 1..n |-> DataRow] : n \in 0..MaxRows}

\* contents of the Text elements: empty, blank, one word, two sentences, a
\* special token
TextContents == {<< >>, <<" ">>, <<"a">>, <<".", " ", "a">>, <<Special>>}

\* the elements of the None / Semantic inputs; the content of a Table element
\* is the text rendering of its rows, as the extractors build it; the heading
\* has no page number, the tables have a section label and metadata
ElementPool ==
  {ExtractedElement("text", c, 1, << >>, << >>) : c \in TextContents}
    \cup {ExtractedElement("heading", <<"a">>, 0, << >>, << >>)}
    \cup {WithMetadata(ExtractedElement("table", _table_to_text(d), 2, <<"s">>, d),
                       SheetMetadata) : d \in TableDatas}

\* element lists of at most MaxElems elements
ElementLists == UNION {[1..n -> ElementPool] : n \in 0..MaxElems}

\* the streams of the Fixed strategy: one Text element of at most MaxLen characters
StreamLists ==
  {<<ExtractedElement("text", c, 1, << >>, << >>)>> : c \in Texts(Alphabet, MaxLen)}

\* the Fixed strategy is given the streams and the element lists
Inputs(s) == IF s = "fixed" THEN StreamLists \cup ElementLists ELSE ElementLists

Strategies == {"none", "fixed", "semantic"}

\* documents with sections: two headings of different content, a word, a
\* blank paragraph
SectionPool ==
  {ExtractedElement("heading", <<"a">>, 1, << >>, << >>),
   ExtractedElement("title", <<"A">>, 2, << >>, << >>),
   ExtractedElement("text", <<"a">>, 1, << >>, << >>),
   ExtractedElement("text", <<" ">>, 2, << >>, << >>)}

SectionLists == UNION {[1..n -> SectionPool] : n \in 0..MaxSectionElems}

\* documents with tables of distinct data rows whose content is the markdown
\* rendering of the rows, as the docx and spreadsheet extractors build it
RowNames == <<"r", "q", "p", "o", "n">>
NamedRow(k) == <<<<RowNames[((k - 1) % Len(RowNames)) + 1]>>>>

MarkdownTables == {<<HeaderRow>> \o [k \in 1..n |-> NamedRow(k)] : n \in 0..(MaxRows + 1)}

TablePool ==
  {ExtractedElement("table", _table_to_markdown(d), 2, <<"s">>, d) : d \in MarkdownTables}
    \cup {ExtractedElement("text", <<"a">>, 1, << >>, << >>)}

TableLists == UNION {[1..n -> TablePool] : n \in 0..MaxElems}

\* documents of one paragraph of up to three short sentences
SentenceAlphabet == {"a", ".", " "}

ParagraphLists ==
  {<<ExtractedElement("text", c, 1, << >>, << >>)>> :
     c \in Texts(SentenceAlphabet, MaxLen + 3)}

(***************************************************************************)
(* Chunker.__init__: every chunk_size and chunk_overlap is accepted.       *)
(* tiktoken "loads" an encoding or "fails" to load one.                    *)
(***************************************************************************)
\* the configurations a Chunker is built with
ChunkSizes == {0, 1, 2, 3}
ChunkOverlaps == {0, 1, 2}

ChunkerInit(size, overlap, use_tokens, tiktoken) ==
  /\ chunk_size = size
  /\ chunk_overlap = overlap
  /\ encoder = (use_tokens /\ tiktoken = "loads")
  /\ use_token_count = IF use_tokens /\ tiktoken = "fails" THEN FALSE ELSE use_tokens

\* budgets that hold the header and one, two or three rows of a table
TableChunkSizes == {11, 16, 21}

\* seeds of the str hashes, one per process (PYTHONHASHSEED is random)
HashSeeds == {0, 1}

(***************************************************************************)
(* The services around the chunking engine, as they stand before any      *)
(* request: the public endpoint POST /convert (apps/converter_api/api/v1/  *)
(* public.py), the rate limiter (packages/common/middleware/rate_limit.py) *)
(* and the conversion pipeline (converter_service.py, convert_task.py,     *)
(* documents.py, models/document.py).                                      *)
(***************************************************************************)
\* POST /convert was not requested yet.  The text of the document is kept
\* by its length, a chunk by the bounds of the slice text[pos:end].
ConvertIdle ==
  convert_file = [pc |-> "idle", chunk_size |-> 0, chunk_overlap |-> 0,
                  text_len |-> 0, pos |-> 0, chunk_index |-> 0, chunks |-> << >>]

\* the fields of the APIKey row that check_rate_limit is given
APIKey(rpm, rpd) == [rate_limit_rpm |-> rpm, rate_limit_rpd |-> rpd]

\* the concurrent requests made with the key
Requests == 1..MaxRequests

\* no request has reached check_rate_limit, and the key has no counter
LimiterIdle(rpm, rpd) ==
  /\ api_key = APIKey(rpm, rpd)
  /\ redis = [minute |-> 0, day |-> 0]
  /\ requests = [r \in Requests |-> "new"]

\* the columns of a Document row the pipeline writes
Document(status, error_message, total_chunks) ==
  [status |-> status, error_message |-> error_message,
   total_chunks |-> total_chunks]

\* a worker with no task, and no reprocess request under way
WorkerIdle ==
  [pc |-> "idle", task |-> "none", seen |-> "none",
   document |-> Document("pending", << >>, 0), added |-> << >>,
   result |-> "none"]

ApiIdle ==
  [pc |-> "idle", seen |-> "none", document |-> Document("pending", << >>, 0),
   response |-> 0, served |-> 0]

\* the document was uploaded: create_document_from_upload stored it as
\* PENDING with no chunk; tasks are the convert_document tasks queued for it
PipelineIdle(tasks) ==
  /\ db = [document |-> Document("pending", << >>, 0), chunks |-> << >>]
  /\ queue = tasks
  /\ worker = WorkerIdle
  /\ api = ApiIdle

ServicesIdle ==
  /\ ConvertIdle
  /\ LimiterIdle(1, 1)
  /\ PipelineIdle(<< >>)

\* no call of chunk() was made yet
Idle ==
  /\ hash_seed \in HashSeeds
  /\ calls = 0
  /\ previous = << >>
  /\ pc = "idle"
  /\ strategy = "semantic"
  /\ result = ExtractionResult(<< >>)
  /\ text = << >>
  /\ pos = 0
  /\ start = 0
  /\ chunks = << >>
  /\ chunk_idx = 0
  /\ current_section = << >>
  /\ current_elements = << >>
  /\ current_size = 0
  /\ spans = << >>
  /\ origins = << >>

Init ==
  /\ \E size \in ChunkSizes, overlap \in ChunkOverlaps,
        use_tokens \in BOOLEAN, tiktoken \in {"loads", "fails"} :
       ChunkerInit(size, overlap, use_tokens, tiktoken)
  /\ Idle
  /\ ServicesIdle

InitTables ==
  /\ \E size \in TableChunkSizes, overlap \in ChunkOverlaps,
        use_tokens \in BOOLEAN, tiktoken \in {"loads", "fails"} :
       ChunkerInit(size, overlap, use_tokens, tiktoken)
  /\ Idle
  /\ ServicesIdle

(***************************************************************************)
(* Chunker.chunk: the dispatch, and the part of each strategy that runs    *)
(* before its loop.                                                        *)
(***************************************************************************)
\* (variant: only an empty stream returns at once, a blank one is chunked)
StreamIsEmpty(full_text) == full_text = << >>

\* _chunk_fixed: the test that returns [] before any loop
StreamIsBlank(full_text) == Strip(full_text) = << >>

\* the dispatch of chunk(s, r): every local starts afresh
Dispatch(s, r) ==
  /\ strategy' = s
  /\ result' = r
  /\ pos' = 0
  /\ start' = 0
  /\ chunks' = << >>
  /\ chunk_idx' = 0
  /\ spans' = << >>
  /\ origins' = << >>
  /\ current_section' = << >>
  /\ current_elements' = << >>
  /\ current_size' = 0
  /\ IF s = "none"
     THEN /\ text' = << >>
          /\ pc' = IF r.elements = << >> THEN "done" ELSE "none"
     ELSE IF s = "fixed"
     THEN /\ text' = get_raw_text(r)
          /\ pc' = IF StreamIsBlank(get_raw_text(r)) THEN "done"
                   ELSE IF use_token_count /\ encoder
                   THEN IF EncodeRaises(get_raw_text(r)) THEN "raised" ELSE "tokens"
                   ELSE "chars"
     ELSE /\ text' = << >>
          /\ pc' = "semantic"
  /\ UNCHANGED <<chunkerVars, serviceVars>>

Chunk(s, r) ==
  /\ pc = "idle"
  /\ Dispatch(s, r)
  /\ calls' = calls + 1
  /\ UNCHANGED <<hash_seed, previous>>

\* chunk() is called once more with the same arguments and configuration,
\* in the same process or in another one
ChunkAgain ==
  /\ pc = "done"
  /\ calls < MaxCalls
  /\ Dispatch(strategy, result)
  /\ calls' = calls + 1
  /\ previous' = chunks
  /\ hash_seed' \in HashSeeds

(***************************************************************************)
(* Chunker._chunk_none: one iteration of the loop over the elements.       *)
(***************************************************************************)
\* (variant: only an empty content is skipped, a blank one is not)
NoneSkipsEmptyOnly(element) == element.content = << >>

\* the test that skips an element
NoneSkips(element) == Strip(element.content) = << >>

\* (variant: the metadata of the element is not copied)
NoneChunkNoMetadata(idx, element) ==
  ProcessedChunk(idx, element.content, count_tokens(element.content),
                 Len(element.content), {element.element_type},
                 ElementPages(element), ElementSections(element), << >>)

\* the chunk made of the element at position idx of the enumeration
NoneChunk(idx, element) ==
  ProcessedChunk(idx, element.content, count_tokens(element.content),
                 Len(element.content), {element.element_type},
                 ElementPages(element), ElementSections(element),
                 element.metadata)

\* the whole loop as a function of the elements still to enumerate from idx
RECURSIVE NoneChunks(_, _)
NoneChunks(elements, idx) ==
  IF elements = << >> THEN << >>
  ELSE (IF NoneSkips(Head(elements)) THEN << >>
        ELSE <<NoneChunk(idx, Head(elements))>>)
         \o NoneChunks(Tail(elements), idx + 1)

\* the list _chunk_none returns for a result
_chunk_none(r) == NoneChunks(r.elements, 0)

\* (variant: a failure of encode() switches the tokenizer off for good)
EncoderDroppedOnFailure(s) == encoder /\ ~EncodeRaises(s)

\* self.encoder once count_tokens(s) has returned: the except branch passes
\* and the field keeps its value
EncoderAfterCount(s) == encoder

NoneStep ==
  /\ pc = "none"
  /\ LET idx == pos
         element == result.elements[idx + 1]
     IN  /\ chunks' =
              IF NoneSkips(element) THEN chunks
              ELSE Append(chunks, NoneChunk(idx, element))
         /\ origins' = IF NoneSkips(element) THEN origins
                       ELSE Append(origins, {idx + 1})
         /\ encoder' = IF NoneSkips(element) THEN encoder
                       ELSE EncoderAfterCount(element.content)
         /\ pos' = pos + 1
         /\ pc' = IF pos + 1 = Len(result.elements) THEN "done" ELSE "none"
  /\ UNCHANGED <<chunk_size, chunk_overlap, use_token_count, processVars,
                 serviceVars, semanticVars, strategy, result, text, start,
                 chunk_idx, spans>>

(***************************************************************************)
(* Chunker._chunk_by_chars: one iteration of the while loop, up to the     *)
(* break or the failing loop test that returns the chunks.                 *)
(***************************************************************************)
\* the test that emits a window
WindowHasText(chunk_text) == Strip(chunk_text) # << >>

\* the statistics of a Fixed chunk in character mode
CharsChunk(index, chunk_text) ==
  ProcessedChunk(index, Strip(chunk_text), count_tokens(chunk_text),
                 Len(chunk_text), _get_element_types(result.elements),
                 _get_source_pages(result.elements),
                 _get_source_sections(result.elements), << >>)

\* start of the next window
NextStart(end) == end - chunk_overlap

\* the loop is left: by the break, or by the loop test on the new start
LoopExits(new_start, end, total) ==
  (new_start <= 0 /\ end >= total) \/ ~(new_start < total)

\* the iterations the model follows
FixedWithinBounds == Len(chunks) < MaxChunks /\ start >= -MaxBack

FixedCharsStep ==
  /\ pc = "chars"
  /\ FixedWithinBounds
  /\ LET total_chars == Len(text)
         end == Min(start + chunk_size, total_chars)
         window == PySlice(text, start, end)
         chunk_text == IF end < total_chars
                       THEN _adjust_to_sentence_boundary(window)
                       ELSE window
         lo == SliceIndex(start, total_chars)
     IN  /\ IF WindowHasText(chunk_text)
            THEN /\ chunks' = Append(chunks, CharsChunk(chunk_idx, chunk_text))
                 /\ spans' = Append(spans, [lo |-> lo, hi |-> lo + Len(chunk_text)])
                 /\ origins' = Append(origins, 1..Len(result.elements))
                 /\ chunk_idx' = chunk_idx + 1
            ELSE UNCHANGED <<chunks, spans, origins, chunk_idx>>
         /\ start' = NextStart(end)
         /\ pc' = IF LoopExits(NextStart(end), end, total_chars) THEN "done"
                  ELSE "chars"
  /\ UNCHANGED <<chunkerVars, processVars, serviceVars, semanticVars, strategy, result, text, pos>>

(***************************************************************************)
(* Chunker._chunk_by_tokens: one iteration of the while loop.              *)
(***************************************************************************)
\* the statistics of a Fixed chunk in token mode
TokensChunk(index, chunk_text) ==
  ProcessedChunk(index, Strip(chunk_text), Len(Encode(chunk_text)),
                 Len(chunk_text), _get_element_types(result.elements),
                 _get_source_pages(result.elements),
                 _get_source_sections(result.elements), << >>)

FixedTokensStep ==
  /\ pc = "tokens"
  /\ FixedWithinBounds
  /\ LET tokens == Encode(text)
         total_tokens == Len(tokens)
         end == Min(start + chunk_size, total_tokens)
         chunk_tokens == PySlice(tokens, start, end)
         decoded == Decode(chunk_tokens)
         chunk_text == IF end < total_tokens
                       THEN _adjust_to_sentence_boundary(decoded)
                       ELSE decoded
         lo == Len(Decode(PySlice(tokens, 0, SliceIndex(start, total_tokens))))
     IN  /\ IF WindowHasText(chunk_text)
            THEN /\ chunks' = Append(chunks, TokensChunk(chunk_idx, chunk_text))
                 /\ spans' = Append(spans, [lo |-> lo, hi |-> lo + Len(chunk_text)])
                 /\ origins' = Append(origins, 1..Len(result.elements))
                 /\ chunk_idx' = chunk_idx + 1
            ELSE UNCHANGED <<chunks, spans, origins, chunk_idx>>
         /\ start' = NextStart(end)
         /\ pc' = IF LoopExits(NextStart(end), end, total_tokens) THEN "done"
                  ELSE "tokens"
  /\ UNCHANGED <<chunkerVars, processVars, serviceVars, semanticVars, strategy, result, text, pos>>

(***************************************************************************)
(* Chunker._chunk_semantic: one iteration of the loop over the elements,   *)
(* and the flush that follows the loop.                                    *)
(***************************************************************************)
IsSectionBreak(element) == element.element_type \in {"title", "heading"}

\* (variant: only the budget starts a new chunk, a heading does not)
BreakOnBudgetOnly(element, element_size) ==
  current_size + element_size > chunk_size

\* the test that starts a new chunk before a within-budget element
ShouldBreak(element, element_size) ==
  \/ IsSectionBreak(element) /\ current_elements # << >>
  \/ current_size + element_size > chunk_size

\* the iteration is left by the exception of a _get_size call
SemanticRaises(element) ==
  \/ _get_size_raises(element.content)
  \/ /\ _get_size(element.content) > chunk_size
     /\ _split_large_element_raises(element)

\* (variant: the label of the current section is never replaced)
SectionKept(element) == current_section

\* the label of the current section after the element
SectionAfter(element) ==
  IF IsSectionBreak(element) THEN element.content ELSE current_section

\* (variant: the flush empties the buffer but keeps its running size)
SizeAfterNoReset(break, element_size) == current_size + element_size

\* current_size once a within-budget element has been added: the flush
\* sets it to 0 before the addition
SizeAfter(break, element_size) ==
  (IF break THEN 0 ELSE current_size) + element_size

\* positions (1-based) of the elements held by the buffer
BufferedPositions == (pos - Len(current_elements) + 1)..pos

\* (variant: the sub-chunks of the oversized element are placed first)
SplitThenBuffer(before, split) == split \o before

\* what an oversized element appends: the flushed buffer, then its sub-chunks
OversizedOutput(before, split) == before \o split

SemanticStep ==
  /\ pc = "semantic"
  /\ pos < Len(result.elements)
  /\ LET element == result.elements[pos + 1]
         element_size == _get_size(element.content)
         flushed == _create_chunk_from_elements(chunk_idx, current_elements,
                                                current_section)
     IN  IF SemanticRaises(element)
         THEN /\ pc' = "raised"
              /\ UNCHANGED <<chunks, origins, chunk_idx, semanticVars, pos>>
         ELSE IF element_size > chunk_size
         THEN LET before == IF current_elements # << >> THEN flushed ELSE << >>
                  split_chunks == _split_large_element(element,
                                                       chunk_idx + Len(before))
              IN  /\ chunks' = chunks \o OversizedOutput(before, split_chunks)
                  /\ origins' = origins \o OversizedOutput(
                                    [k \in 1..Len(before) |-> BufferedPositions],
                                    [k \in 1..Len(split_chunks) |-> {pos + 1}])
                  /\ chunk_idx' = chunk_idx + Len(before) + Len(split_chunks)
                  /\ current_elements' =
                       IF current_elements # << >> THEN << >> ELSE current_elements
                  /\ current_size' =
                       IF current_elements # << >> THEN 0 ELSE current_size
                  /\ pos' = pos + 1
                  /\ UNCHANGED <<pc, current_section>>
         ELSE LET break == ShouldBreak(element, element_size)
                  before == IF break THEN flushed ELSE << >>
              IN  /\ chunks' = chunks \o before
                  /\ origins' = origins \o [k \in 1..Len(before) |-> BufferedPositions]
                  /\ chunk_idx' = chunk_idx + Len(before)
                  /\ current_section' = SectionAfter(element)
                  /\ current_elements' =
                       Append(IF break THEN << >> ELSE current_elements, element)
                  /\ current_size' = SizeAfter(break, element_size)
                  /\ pos' = pos + 1
                  /\ UNCHANGED pc
  /\ UNCHANGED <<chunkerVars, processVars, serviceVars, strategy, result, text, start, spans>>

SemanticFlush ==
  /\ pc = "semantic"
  /\ pos = Len(result.elements)
  /\ LET flushed == IF current_elements # << >>
                    THEN _create_chunk_from_elements(chunk_idx, current_elements,
                                                     current_section)
                    ELSE << >>
     IN  /\ chunks' = chunks \o flushed
         /\ origins' = origins \o [k \in 1..Len(flushed) |-> BufferedPositions]
  /\ pc' = "done"
  /\ UNCHANGED <<chunkerVars, processVars, serviceVars, semanticVars, strategy, result, text, pos, start,
                 chunk_idx, spans>>

(***************************************************************************)
(* The specification.                                                      *)
(***************************************************************************)
\* a caller calls chunk() on an idle Chunker
Call ==
  /\ pc = "idle"
  /\ \E s \in Strategies : \E els \in Inputs(s) : Chunk(s, ExtractionResult(els))

Next ==
  \/ Call
  \/ NoneStep
  \/ FixedCharsStep
  \/ FixedTokensStep
  \/ SemanticStep
  \/ SemanticFlush

Spec == Init /\ [][Next]_vars

\* the Semantic strategy on documents with sections
CallSections ==
  /\ pc = "idle"
  /\ \E els \in SectionLists : Chunk("semantic", ExtractionResult(els))

NextSections ==
  \/ CallSections
  \/ SemanticStep
  \/ SemanticFlush

SpecSections == Init /\ [][NextSections]_vars

\* two calls of chunk() with the same arguments
NextTwice ==
  \/ Next
  \/ ChunkAgain

SpecTwice == Init /\ [][NextTwice]_vars

\* the Semantic strategy on documents with tables, under budgets of a few rows
CallTables ==
  /\ pc = "idle"
  /\ \E els \in TableLists : Chunk("semantic", ExtractionResult(els))

NextTables ==
  \/ CallTables
  \/ SemanticStep
  \/ SemanticFlush

SpecTables == InitTables /\ [][NextTables]_vars

\* the Semantic strategy on one paragraph
CallParagraph ==
  /\ pc = "idle"
  /\ \E els \in ParagraphLists : Chunk("semantic", ExtractionResult(els))

NextParagraph ==
  \/ CallParagraph
  \/ SemanticStep
  \/ SemanticFlush

SpecParagraph == Init /\ [][NextParagraph]_vars

\* streams that open with a sentence ending in a capital and a full stop
\* ("aaA."), followed by up to MaxLen more characters
WindowLists ==
  {<<ExtractedElement("text", <<"a", "a", "A", ".">> \o c, 1, << >>, << >>)>> :
     c \in Texts({"a", " "}, MaxLen)}

\* budgets of a window that holds the opening sentence and more
WindowChunkSizes == {4, 5}

InitWindows ==
  /\ \E size \in WindowChunkSizes, overlap \in ChunkOverlaps,
        use_tokens \in BOOLEAN, tiktoken \in {"loads", "fails"} :
       ChunkerInit(size, overlap, use_tokens, tiktoken)
  /\ Idle
  /\ ServicesIdle

\* the Fixed strategy on one stream, in character mode and in token mode
CallWindows ==
  /\ pc = "idle"
  /\ \E els \in WindowLists : Chunk("fixed", ExtractionResult(els))

NextWindows ==
  \/ CallWindows
  \/ FixedCharsStep
  \/ FixedTokensStep

SpecWindows == InitWindows /\ [][NextWindows]_vars

(***************************************************************************)
(* POST /convert (convert_file in public.py): the Fixed chunking loop.     *)
(***************************************************************************)
\* the bounds FastAPI enforces on the query parameters
MinChunkSize == 100
MaxChunkSize == 10000
MinChunkOverlap == 0
MaxChunkOverlap == 500

\* accepted values of chunk_size and chunk_overlap, and lengths of total_text
ConvertChunkSizes == {MinChunkSize, 200, MaxChunkSize}
ConvertChunkOverlaps == {MinChunkOverlap, 50, 100, MaxChunkOverlap}
TextLengths == {0, 1, 100, 150, 250, 450}

\* the Chunker stands by while the services run
ChunkerParked ==
  /\ ChunkerInit(1000, 100, TRUE, "loads")
  /\ Idle
  /\ hash_seed = 0

\* chunk_text = text[pos:end], kept by the bounds of the slice
ChunkContent(index, lo, hi, len) ==
  [index |-> index, lo |-> SliceIndex(lo, len),
   hi |-> Max(SliceIndex(lo, len), SliceIndex(hi, len))]

\* pos after a chunk that ends at end
NextPos(end, len) ==
  IF end < len THEN end - convert_file.chunk_overlap ELSE len

\* the request reaches the chunking code with chunk_strategy "fixed"
ConvertFile(size, overlap, len) ==
  /\ convert_file.pc = "idle"
  /\ convert_file' =
       [pc |-> IF len > 0 THEN "fixed" ELSE "done",
        chunk_size |-> size, chunk_overlap |-> overlap, text_len |-> len,
        pos |-> 0, chunk_index |-> 0, chunks |-> << >>]
  /\ UNCHANGED <<chunkerVars, processVars, semanticVars, limiterVars,
                 pipelineVars, pc, strategy, result, text, pos, start, chunks,
                 chunk_idx, spans, origins>>

\* one iteration of the while loop
ConvertFixedStep ==
  /\ convert_file.pc = "fixed"
  /\ convert_file.pos < convert_file.text_len
  /\ convert_file.chunk_index < MaxIterations
  /\ LET len == convert_file.text_len
         end == Min(convert_file.pos + convert_file.chunk_size, len)
     IN  convert_file' =
           [convert_file EXCEPT
              !.chunks = Append(@, ChunkContent(convert_file.chunk_index,
                                                convert_file.pos, end, len)),
              !.chunk_index = @ + 1,
              !.pos = NextPos(end, len)]
  /\ UNCHANGED <<chunkerVars, processVars, semanticVars, limiterVars,
                 pipelineVars, pc, strategy, result, text, pos, start, chunks,
                 chunk_idx, spans, origins>>

\* the loop test fails: the chunks go into the response
ConvertFixedExit ==
  /\ convert_file.pc = "fixed"
  /\ ~(convert_file.pos < convert_file.text_len)
  /\ convert_file' = [convert_file EXCEPT !.pc = "done"]
  /\ UNCHANGED <<chunkerVars, processVars, semanticVars, limiterVars,
                 pipelineVars, pc, strategy, result, text, pos, start, chunks,
                 chunk_idx, spans, origins>>

InitConvert ==
  /\ ChunkerParked
  /\ ServicesIdle

CallConvert ==
  \E size \in ConvertChunkSizes, overlap \in ConvertChunkOverlaps,
     len \in TextLengths : ConvertFile(size, overlap, len)

NextConvert ==
  \/ CallConvert
  \/ ConvertFixedStep
  \/ ConvertFixedExit

SpecConvert == InitConvert /\ [][NextConvert]_vars

(***************************************************************************)
(* The rate limiter.  check_rate_limit (module level) awaits               *)
(* RateLimiter.check_rate_limit, which reads the two counters in one       *)
(* pipeline, and, when the request is allowed, awaits                      *)
(* RateLimiter.record_request, which increments them in another one.       *)
(* Other requests run between the two awaits.  A counter that is 0 stands  *)
(* for an absent key: GET returns None, read as 0, and INCR creates it.    *)
(***************************************************************************)
\* the limits of the keys tried
RateLimits == {1, 2}

\* rpm_exceeded and rpd_exceeded of RateLimiter.check_rate_limit
RpmExceeded(minute_count) == minute_count >= api_key.rate_limit_rpm
RpdExceeded(day_count) == day_count >= api_key.rate_limit_rpd

\* RateLimiter.check_rate_limit for request r: is_allowed, or the 429
CheckRateLimit(r) ==
  /\ requests[r] = "new"
  /\ LET minute_count == redis.minute
         day_count == redis.day
     IN  requests' =
           [requests EXCEPT ![r] =
              IF RpmExceeded(minute_count) \/ RpdExceeded(day_count)
              THEN "rejected" ELSE "allowed"]
  /\ UNCHANGED <<chunkerVars, processVars, semanticVars, convert_file,
                 pipelineVars, api_key, redis, pc, strategy, result, text, pos,
                 start, chunks, chunk_idx, spans, origins>>

\* RateLimiter.record_request for request r: INCR and EXPIRE of both keys
RecordRequest(r) ==
  /\ requests[r] = "allowed"
  /\ redis' = [minute |-> redis.minute + 1, day |-> redis.day + 1]
  /\ requests' = [requests EXCEPT ![r] = "recorded"]
  /\ UNCHANGED <<chunkerVars, processVars, semanticVars, convert_file,
                 pipelineVars, api_key, pc, strategy, result, text, pos,
                 start, chunks, chunk_idx, spans, origins>>

\* WINDOW_MINUTE seconds went by since the last EXPIRE of the minute key
MinuteExpires ==
  /\ redis.minute > 0
  /\ redis' = [redis EXCEPT !.minute = 0]
  /\ UNCHANGED <<chunkerVars, processVars, semanticVars, convert_file,
                 pipelineVars, api_key, requests, pc, strategy, result, text,
                 pos, start, chunks, chunk_idx, spans, origins>>

\* WINDOW_DAY seconds went by since the last EXPIRE of the day key; the
\* minute key, given its shorter life in the same pipeline, is gone by then
DayExpires ==
  /\ redis.day > 0
  /\ redis.minute = 0
  /\ redis' = [redis EXCEPT !.day = 0]
  /\ UNCHANGED <<chunkerVars, processVars, semanticVars, convert_file,
                 pipelineVars, api_key, requests, pc, strategy, result, text,
                 pos, start, chunks, chunk_idx, spans, origins>>

InitLimiter ==
  /\ ChunkerParked
  /\ ConvertIdle
  /\ \E rpm \in RateLimits, rpd \in RateLimits : LimiterIdle(rpm, rpd)
  /\ PipelineIdle(<< >>)

NextLimiter ==
  \/ \E r \in Requests : CheckRateLimit(r)
  \/ \E r \in Requests : RecordRequest(r)
  \/ MinuteExpires
  \/ DayExpires

SpecLimiter == InitLimiter /\ [][NextLimiter]_vars

(***************************************************************************)
(* The conversion pipeline of one document.  db holds what is committed;   *)
(* the worker and the reprocess request each work in a session of their    *)
(* own, whose flushed changes nobody else sees before the commit and which *)
(* a rollback discards.  db.get reads the committed row.  A task is named  *)
(* by what queued it: "upload" or "reprocess".                             *)
(***************************************************************************)
\* str(e) of the exceptions process_document may catch
ErrorMessages == {<< >>, <<"e">>}

\* the session has flushed an UPDATE of the Document row and holds its lock
WorkerHoldsRow == worker.pc \in {"parse", "processed", "failed"}
ApiHoldsRow == api.pc \in {"flushed", "queued"}

\* Document.mark_processing, mark_completed and mark_failed
mark_processing(document) == [document EXCEPT !.status = "processing"]

mark_completed(document, total_chunks) ==
  [document EXCEPT !.status = "completed", !.total_chunks = total_chunks]

mark_failed(document, error_message) ==
  [document EXCEPT !.status = "failed", !.error_message = error_message]

\* _process_document_async, up to the creation of the ConvertRequest: the
\* task leaves the queue, the document is read, a COMPLETED one is left alone
TaskStart ==
  /\ worker.pc = "idle"
  /\ queue # << >>
  /\ queue' = Tail(queue)
  /\ LET document == db.document
     IN  worker' =
           IF document.status = "completed"
           THEN [WorkerIdle EXCEPT !.task = Head(queue),
                                   !.seen = document.status,
                                   !.result = "already_completed"]
           ELSE [WorkerIdle EXCEPT !.pc = "process",
                                   !.task = Head(queue),
                                   !.seen = document.status,
                                   !.document = document]
  /\ UNCHANGED <<chunkerVars, processVars, semanticVars, convert_file,
                 limiterVars, db, api, pc, strategy, result, text, pos, start,
                 chunks, chunk_idx, spans, origins>>

\* process_document: mark_processing and the flush
MarkProcessing ==
  /\ worker.pc = "process"
  /\ ~ApiHoldsRow
  /\ worker' = [worker EXCEPT !.pc = "parse",
                              !.document = mark_processing(@)]
  /\ UNCHANGED <<chunkerVars, processVars, semanticVars, convert_file,
                 limiterVars, db, queue, api, pc, strategy, result, text, pos,
                 start, chunks, chunk_idx, spans, origins>>

\* process_document: the file is parsed and chunked into n chunks, numbered
\* by _elements_to_chunks from 0; the Chunk rows are added, the document is
\* marked completed, the session is flushed
ProcessSucceeds(n) ==
  /\ worker.pc = "parse"
  /\ worker' = [worker EXCEPT !.pc = "processed",
                              !.added = [k \in 1..n |-> k - 1],
                              !.document = mark_completed(@, n)]
  /\ UNCHANGED <<chunkerVars, processVars, semanticVars, convert_file,
                 limiterVars, db, queue, api, pc, strategy, result, text, pos,
                 start, chunks, chunk_idx, spans, origins>>

\* process_document: parsing or chunking raises; the except clause marks
\* the document failed, flushes, and raises again
ProcessRaises(error) ==
  /\ worker.pc = "parse"
  /\ worker' = [worker EXCEPT !.pc = "failed",
                              !.document = mark_failed(@, error)]
  /\ UNCHANGED <<chunkerVars, processVars, semanticVars, convert_file,
                 limiterVars, db, queue, api, pc, strategy, result, text, pos,
                 start, chunks, chunk_idx, spans, origins>>

\* _process_document_async: process_document returned, db.commit()
TaskCommit ==
  /\ worker.pc = "processed"
  /\ db' = [document |->
              [db.document EXCEPT !.status = worker.document.status,
                                  !.total_chunks = worker.document.total_chunks],
            chunks |-> db.chunks \o worker.added]
  /\ worker' = [worker EXCEPT !.pc = "idle", !.result = "completed"]
  /\ UNCHANGED <<chunkerVars, processVars, semanticVars, convert_file,
                 limiterVars, queue, api, pc, strategy, result, text, pos, start,
                 chunks, chunk_idx, spans, origins>>

\* _process_document_async: process_document raised, db.rollback(); the
\* task returns its error dict, so Celery retries nothing
TaskRollback ==
  /\ worker.pc = "failed"
  /\ worker' = [worker EXCEPT !.pc = "idle", !.result = "error",
                              !.document = db.document, !.added = << >>]
  /\ UNCHANGED <<chunkerVars, processVars, semanticVars, convert_file,
                 limiterVars, db, queue, api, pc, strategy, result, text, pos,
                 start, chunks, chunk_idx, spans, origins>>

\* reprocess_document: the document is read and its status tested; the
\* request is refused with a 400 unless the status is FAILED or COMPLETED
ReprocessGet ==
  /\ api.pc = "idle"
  /\ api.served < MaxReprocess
  /\ LET document == db.document
     IN  api' =
           IF document.status \notin {"failed", "completed"}
           THEN [api EXCEPT !.seen = document.status, !.response = 400,
                            !.served = @ + 1]
           ELSE [api EXCEPT !.pc = "checked", !.seen = document.status,
                            !.document = document, !.response = 0]
  /\ UNCHANGED <<chunkerVars, processVars, semanticVars, convert_file,
                 limiterVars, db, queue, worker, pc, strategy, result, text, pos,
                 start, chunks, chunk_idx, spans, origins>>

\* reprocess_document: the status is reset and the session flushed
ReprocessFlush ==
  /\ api.pc = "checked"
  /\ ~WorkerHoldsRow
  /\ api' = [api EXCEPT !.pc = "flushed",
                        !.document = [@ EXCEPT !.status = "pending",
                                               !.error_message = << >>]]
  /\ UNCHANGED <<chunkerVars, processVars, semanticVars, convert_file,
                 limiterVars, db, queue, worker, pc, strategy, result, text, pos,
                 start, chunks, chunk_idx, spans, origins>>

\* reprocess_document: convert_document.delay(...) hands the task to the
\* broker at once
ReprocessDelay ==
  /\ api.pc = "flushed"
  /\ queue' = Append(queue, "reprocess")
  /\ api' = [api EXCEPT !.pc = "queued"]
  /\ UNCHANGED <<chunkerVars, processVars, semanticVars, convert_file,
                 limiterVars, db, worker, pc, strategy, result, text, pos, start,
                 chunks, chunk_idx, spans, origins>>

\* reprocess_document: db.commit(), and the response
ReprocessCommit ==
  /\ api.pc = "queued"
  /\ db' = [db EXCEPT !.document.status = api.document.status,
                      !.document.error_message = api.document.error_message]
  /\ api' = [api EXCEPT !.pc = "idle", !.response = 200, !.served = @ + 1]
  /\ UNCHANGED <<chunkerVars, processVars, semanticVars, convert_file,
                 limiterVars, queue, worker, pc, strategy, result, text, pos,
                 start, chunks, chunk_idx, spans, origins>>

\* the document was uploaded and its first conversion task is queued
InitPipeline ==
  /\ ChunkerParked
  /\ ConvertIdle
  /\ LimiterIdle(1, 1)
  /\ PipelineIdle(<<"upload">>)

NextPipeline ==
  \/ TaskStart
  \/ MarkProcessing
  \/ \E n \in 0..MaxDocChunks : ProcessSucceeds(n)
  \/ \E error \in ErrorMessages : ProcessRaises(error)
  \/ TaskCommit
  \/ TaskRollback
  \/ ReprocessGet
  \/ ReprocessFlush
  \/ ReprocessDelay
  \/ ReprocessCommit

SpecPipeline == InitPipeline /\ [][NextPipeline]_vars

(***************************************************************************)
(* Properties.                                                             *)
(***************************************************************************)
Returned == pc = "done"
InFixedLoop == pc \in {"chars", "tokens"}
CharMode == ~(use_token_count /\ encoder)
ValidConfig == chunk_size >= 1 /\ chunk_overlap >= 0 /\ chunk_overlap < chunk_size

\* sub occurs in s as a contiguous run
Contains(s, sub) ==
  \E k \in 0..(Len(s) - Len(sub)) : SubSeq(s, k + 1, k + Len(sub)) = sub

\* some chunk built so far carries the text sub
InSomeChunk(sub) == \E k \in 1..Len(chunks) : Contains(chunks[k].text, sub)

\* C1: in the Fixed strategy with chunk_size >= 1, every iteration of the
\* sliding-window loop either leaves the loop or strictly increases the
\* window start, so the loop ends after finitely many iterations.
C1_FixedLoopProgress ==
  [][(InFixedLoop /\ chunk_size >= 1 /\ chunk_overlap >= 0)
       => (pc' = "done" \/ start' > start)]_vars

\* C2: the indices of the returned chunks, in output order, are 0, 1, ..., N-1.
C2_IndexContiguity ==
  (Returned /\ ValidConfig) => \A k \in 1..Len(chunks) : chunks[k].index = k - 1

\* C3: Fixed strategy with overlap < budget: every character of the stream
\* that is not whitespace lies in the range of some returned chunk.
C3_FixedCoversStream ==
  (Returned /\ strategy = "fixed" /\ ValidConfig /\ CharMode)
    => \A p \in 1..Len(text) :
         IsSpace(text[p])
           \/ \E k \in 1..Len(spans) : spans[k].lo < p /\ p <= spans[k].hi

\* C4: Semantic strategy: the content of every element with non-blank content
\* is in some returned chunk: every sentence of an oversized text element,
\* every row of an oversized table, the trimmed content of any other element.
C4_ElementKept(element) ==
  IF _get_size(element.content) > chunk_size
  THEN IF element.element_type = "table" /\ element.table_data # << >>
       THEN \A k \in 1..Len(element.table_data) :
              InSomeChunk(RowText(element.table_data[k]))
       ELSE \A k \in 1..Len(_split_into_sentences(element.content)) :
              InSomeChunk(_split_into_sentences(element.content)[k])
  ELSE InSomeChunk(Strip(element.content))

C4_SemanticNoLoss ==
  (Returned /\ strategy = "semantic" /\ ValidConfig)
    => \A k \in 1..Len(result.elements) :
         Strip(result.elements[k].content) # << >>
           => C4_ElementKept(result.elements[k])

\* C5: every chunk of every strategy has text that is non-empty after
\* trimming whitespace.
C5_NonEmptyChunks ==
  \A k \in 1..Len(chunks) : Strip(chunks[k].text) # << >>

\* a None or Semantic call has returned chunks for a result that holds a
\* blank (whitespace-only) element
C5_BlankSkipped ==
  /\ Returned
  /\ chunks # << >>
  /\ strategy # "fixed"
  /\ \E k \in 1..Len(result.elements) :
       /\ result.elements[k].content # << >>
       /\ Strip(result.elements[k].content) = << >>

\* the chunk text is one single sentence, or the header of a table of the
\* input followed by one single data row
C6_SingleSentence(txt) == Len(_split_into_sentences(txt)) <= 1

C6_HeaderAndOneRow(txt) ==
  \E k \in 1..Len(result.elements) :
    LET table_data == result.elements[k].table_data
    IN  \E r \in 2..Len(table_data) :
          txt = _table_to_markdown(<<table_data[1], table_data[r]>>)

\* C6: Fixed and Semantic strategies: the size of every returned chunk, in
\* the budgeting unit, is at most chunk_size, unless the chunk is one single
\* sentence or a table header with one single data row.
C6_BudgetRespected ==
  (Returned /\ strategy \in {"fixed", "semantic"} /\ ValidConfig)
    => \A k \in 1..Len(chunks) :
         \/ _get_size(chunks[k].text) <= chunk_size
         \/ C6_SingleSentence(chunks[k].text)
         \/ C6_HeaderAndOneRow(chunks[k].text)

\* C7: Fixed strategy, character mode, overlap k < chunk_size: the start of
\* chunk i+1 minus the end of chunk i is at most 0 and at least -k.
C7_OverlapBounded ==
  (strategy = "fixed" /\ CharMode /\ ValidConfig)
    => \A k \in 1..(Len(spans) - 1) :
         /\ spans[k + 1].lo - spans[k].hi <= 0
         /\ spans[k + 1].lo - spans[k].hi >= -chunk_overlap

\* C8: a Chunker whose configuration has chunk_size <= 0 or
\* chunk_overlap >= chunk_size is refused: it enters no strategy loop and
\* builds no chunk.
C8_BadConfigNeverRuns ==
  (chunk_size <= 0 \/ chunk_overlap >= chunk_size)
    => (pc \in {"idle", "done"} /\ chunks = << >>)

\* C9: every chunk with non-empty text has token_count >= 1.
C9_TokenCountFloor ==
  ValidConfig => \A k \in 1..Len(chunks) :
    chunks[k].text # << >> => chunks[k].token_count >= 1

\* C10: char_count is the length of the chunk's text and token_count is the
\* token counter applied to that text.
C10_StatsOfOwnText ==
  ValidConfig => \A k \in 1..Len(chunks) :
    /\ chunks[k].char_count = Len(chunks[k].text)
    /\ chunks[k].token_count = count_tokens(chunks[k].text)

\* C11: a failure of the tokenizer never aborts chunking: whenever the
\* encoder raises on a text the engine measures or encodes, chunk() still
\* returns its chunks and no exception reaches the caller.
C11_EncoderFailureContained == ValidConfig => pc # "raised"

\* every element of the call has content that is empty after trimming
\* (an empty element sequence included)
Degenerate ==
  \A k \in 1..Len(result.elements) : Strip(result.elements[k].content) = << >>

RECURSIVE WithoutEmpty(_)
WithoutEmpty(elements) ==
  IF elements = << >> THEN << >>
  ELSE (IF Head(elements).content = << >> THEN << >> ELSE <<Head(elements)>>)
         \o WithoutEmpty(Tail(elements))

\* C13: empty-content elements are skipped by every strategy: the chunks of
\* an element list are those of the same list without its empty-content
\* elements (None strategy: the very same chunk list), and an empty element
\* contributes no kind and no page to the metadata of any chunk.
C13_EmptyElementsSkipped ==
  (Returned /\ ValidConfig)
    => /\ strategy = "none"
            => chunks = _chunk_none(ExtractionResult(WithoutEmpty(result.elements)))
       /\ \A k \in 1..Len(chunks) :
            /\ chunks[k].element_types
                 \subseteq _get_element_types(WithoutEmpty(result.elements))
            /\ chunks[k].source_pages
                 \subseteq _get_source_pages(WithoutEmpty(result.elements))

\* every element of the call is measured without error and fits the budget
AllWithinBudget ==
  \A k \in 1..Len(result.elements) :
    /\ ~_get_size_raises(result.elements[k].content)
    /\ _get_size(result.elements[k].content) <= chunk_size

\* the set holding the content of the latest Title/Heading at or before
\* position p; empty when no Title/Heading comes that early
SectionAt(p) ==
  LET hs == {h \in 1..p : IsSectionBreak(result.elements[h])}
  IN  IF hs = {} THEN {}
      ELSE {result.elements[CHOOSE h \in hs : \A g \in hs : g <= h].content}

\* the first element a chunk was built from
FirstOrigin(k) == CHOOSE p \in origins[k] : \A q \in origins[k] : p <= q

\* C14: Semantic strategy on within-budget elements: the source_sections of
\* every chunk is exactly the set holding the content of the most recent
\* Title/Heading at or before the first element of the chunk.
C14_SectionAttribution ==
  (strategy = "semantic" /\ AllWithinBudget)
    => \A k \in 1..Len(chunks) : chunks[k].source_sections = SectionAt(FirstOrigin(k))

\* [Heading a, Text, Title A, Text] has returned exactly two chunks, labelled
\* {a} and {A}
C14_TwoSections ==
  /\ Returned
  /\ AllWithinBudget
  /\ result.elements = <<ExtractedElement("heading", <<"a">>, 1, << >>, << >>),
                         ExtractedElement("text", <<"a">>, 1, << >>, << >>),
                         ExtractedElement("title", <<"A">>, 2, << >>, << >>),
                         ExtractedElement("text", <<"a">>, 1, << >>, << >>)>>
  /\ Len(chunks) = 2
  /\ chunks[1].source_sections = {<<"a">>}
  /\ chunks[2].source_sections = {<<"A">>}

\* the last element a chunk was built from
LastOrigin(k) == CHOOSE p \in origins[k] : \A q \in origins[k] : q <= p

\* the elements a chunk was built from
OriginElements(k) == SubSeq(result.elements, FirstOrigin(k), LastOrigin(k))

\* chunk k was flushed from the buffer: none of its elements is oversized
FlushedFromBuffer(k) ==
  \A p \in origins[k] : _get_size(result.elements[p].content) <= chunk_size

\* C15: Semantic strategy: every chunk flushed from the buffer has
\* element_types and source_pages equal to the sets of the kinds and the page
\* numbers of exactly the elements the chunk was built from, and its
\* source_sections omits the section label of none of these elements.
C15_FlushKeepsMetadata ==
  (strategy = "semantic" /\ ValidConfig)
    => \A k \in 1..Len(chunks) :
         FlushedFromBuffer(k)
           => /\ chunks[k].element_types = _get_element_types(OriginElements(k))
              /\ chunks[k].source_pages = _get_source_pages(OriginElements(k))
              /\ _get_source_sections(OriginElements(k))
                   \subseteq chunks[k].source_sections

\* the text up to the first line break
RECURSIVE FirstLine(_)
FirstLine(s) ==
  IF s = << >> \/ Head(s) = NL THEN << >> ELSE <<Head(s)>> \o FirstLine(Tail(s))

\* chunk k was emitted by _split_large_table for the oversized table at p
SplitOfTable(k, p) ==
  /\ origins[k] = {p}
  /\ result.elements[p].element_type = "table"
  /\ result.elements[p].table_data # << >>
  /\ _get_size(result.elements[p].content) > chunk_size

\* C16: for every Table element with table_data whose size exceeds
\* chunk_size, the text of every chunk emitted by _split_large_table has, as
\* its first line, the markdown rendering of the header row table_data[0].
C16_HeaderRepeated ==
  strategy = "semantic"
    => \A k \in 1..Len(chunks) : \A p \in 1..Len(result.elements) :
         SplitOfTable(k, p)
           => FirstLine(chunks[k].text)
                = FirstLine(_table_to_markdown(<<result.elements[p].table_data[1]>>))

\* an oversized table was split into two chunks, one of them holding two
\* data rows
C16_TwoGroups ==
  /\ Returned
  /\ \E k \in 1..Len(chunks) : \E p \in 1..Len(result.elements) :
       /\ k < Len(chunks)
       /\ SplitOfTable(k, p)
       /\ SplitOfTable(k + 1, p)
       /\ \E d \in MarkdownTables :
            Len(d) = 3 /\ chunks[k].text = _table_to_markdown(d)

\* the texts of the chunks k.. that were built from the element at p alone
RECURSIVE TextsOf(_, _)
TextsOf(p, k) ==
  IF k > Len(chunks) THEN << >>
  ELSE (IF origins[k] = {p} THEN <<chunks[k].text>> ELSE << >>) \o TextsOf(p, k + 1)

\* the texts are the sentences, packed in order into consecutive groups
\* joined by one space, a sentence over the budget being alone in its group
RECURSIVE PackedInOrder(_, _)
PackedInOrder(texts, sentences) ==
  IF texts = << >> THEN sentences = << >>
  ELSE \E n \in 1..Len(sentences) :
         /\ Head(texts) = Join(SubSeq(sentences, 1, n), <<" ">>)
         /\ n > 1 => \A i \in 1..n : _get_size(sentences[i]) <= chunk_size
         /\ PackedInOrder(Tail(texts), SubSeq(sentences, n + 1, Len(sentences)))

\* the element at p is an oversized text element that _chunk_semantic has
\* handed to _split_large_element
SplitOfText(p) ==
  /\ p <= pos
  /\ ~(result.elements[p].element_type = "table"
         /\ result.elements[p].table_data # << >>)
  /\ _get_size(result.elements[p].content) > chunk_size

\* C17: sentence packing of an oversized text element: every sentence of the
\* sentence splitter is whole in exactly one sub-chunk, the sub-chunks keep
\* the order of the sentences, and a sentence whose own size exceeds
\* chunk_size is a sub-chunk of its own, untruncated.
C17_SentencesPacked ==
  strategy = "semantic"
    => \A p \in 1..Len(result.elements) :
         SplitOfText(p)
           => PackedInOrder(TextsOf(p, 1),
                            _split_into_sentences(result.elements[p].content))

\* a paragraph of three sentences was split into at least two sub-chunks;
\* its first sentence exceeds the budget, a later sub-chunk holds two sentences
C17_OversizedSentenceAlone ==
  /\ Returned
  /\ ValidConfig
  /\ Len(result.elements) = 1
  /\ SplitOfText(1)
  /\ LET sentences == _split_into_sentences(result.elements[1].content)
     IN  /\ Len(sentences) = 3
         /\ _get_size(sentences[1]) > chunk_size
         /\ Len(chunks) = 2
         /\ chunks[1].text = sentences[1]
         /\ chunks[2].text = Join(<<sentences[2], sentences[3]>>, <<" ">>)

\* the element at p is oversized and _chunk_semantic has dealt with it
OversizedMet(p) ==
  p <= pos /\ _get_size(result.elements[p].content) > chunk_size

\* C18: output order follows input order (Semantic and None): a chunk built
\* from an element comes no later in the output, and has no larger index,
\* than a chunk built from a later element.  When an oversized element is
\* met, the buffered elements before it leave the buffer, the chunks built
\* from it are consecutive, and the element itself never enters the buffer.
C18_OrderFollowsInput ==
  strategy \in {"none", "semantic"}
    => /\ \A k \in 1..Len(chunks) : \A l \in 1..Len(chunks) :
            (\E p \in origins[k] : \E q \in origins[l] : p < q)
              => (k <= l /\ chunks[k].index <= chunks[l].index)
       /\ \A p \in 1..Len(result.elements) :
            (strategy = "semantic" /\ OversizedMet(p))
              => /\ \A q \in BufferedPositions : q > p
                 /\ \A k \in 1..Len(chunks) : \A l \in k..Len(chunks) :
                      (origins[k] = {p} /\ origins[l] = {p})
                        => \A m \in k..l : origins[m] = {p}

\* a Semantic call has returned the chunk of a buffered element followed by
\* the two sub-chunks of the oversized element after it
C18_FlushThenSplit ==
  /\ Returned
  /\ strategy = "semantic"
  /\ Len(result.elements) = 2
  /\ ~OversizedMet(1)
  /\ OversizedMet(2)
  /\ Len(chunks) = 3
  /\ origins = <<{1}, {2}, {2}>>

\* the elements whose content is not empty after trimming, in their order
RECURSIVE NonEmptyElements(_)
NonEmptyElements(elements) ==
  IF elements = << >> THEN << >>
  ELSE (IF Strip(Head(elements).content) = << >> THEN << >> ELSE <<Head(elements)>>)
         \o NonEmptyElements(Tail(elements))

\* C19: None strategy is 1:1: the output has exactly one chunk per element
\* with non-empty content, in input order, and the text, element type, page
\* number, section and metadata of each chunk are those of that one element.
C19_NoneOneToOne ==
  (Returned /\ strategy = "none")
    => LET kept == NonEmptyElements(result.elements)
       IN  /\ Len(chunks) = Len(kept)
           /\ \A k \in 1..Len(chunks) :
                /\ chunks[k].text = kept[k].content
                /\ chunks[k].element_types = {kept[k].element_type}
                /\ chunks[k].source_pages = {kept[k].page_number} \ {0}
                /\ chunks[k].source_sections = {kept[k].section} \ {<< >>}
                /\ chunks[k].metadata = kept[k].metadata

\* a None call has returned one chunk for a blank element followed by a
\* table with page number, section label and metadata
C19_BlankThenTable ==
  /\ Returned
  /\ strategy = "none"
  /\ Len(result.elements) = 2
  /\ result.elements[1].content # << >>
  /\ Strip(result.elements[1].content) = << >>
  /\ result.elements[2].element_type = "table"
  /\ Len(chunks) = 1
  /\ chunks[1].text = result.elements[2].content
  /\ chunks[1].source_pages = {2}
  /\ chunks[1].source_sections = {<<"s">>}
  /\ chunks[1].metadata = SheetMetadata

\* C20: determinism: a call of chunk() with the configuration, the element
\* sequence and the strategy of the call before it returns the identical
\* chunk sequence.
C20_Determinism ==
  (Returned /\ calls >= 2) => chunks = previous

FixedStream == IF pc = "tokens" THEN Encode(text) ELSE text
WindowEnd == Min(start + chunk_size, Len(FixedStream))
Window ==
  IF pc = "tokens" THEN Decode(PySlice(FixedStream, start, WindowEnd))
  ELSE PySlice(FixedStream, start, WindowEnd)

\* a sentence-ending mark stands in the second half of the window
MarkInSecondHalf(w) == \E k \in 1..Len(w) : IsPunct(w[k]) /\ 2 * k > Len(w)

\* C22: sentence-boundary snapping is bounded.  Whenever an iteration of the
\* Fixed loop emits a chunk, what it emits is the window or a pulled-back
\* beginning of it; it is pulled back only when more of the stream remains
\* after the window, the pulled-back window measures at least half of
\* chunk_size (in the unit chunk_size is counted in), and a window with no
\* sentence end in its second half is emitted whole.
C22_SnappingBounded ==
  [][(InFixedLoop /\ Len(chunks') = Len(chunks) + 1) =>
       LET kept == chunks'[Len(chunks')].char_count
           pulled == kept < Len(Window)
       IN  /\ kept <= Len(Window)
           /\ pulled => WindowEnd < Len(FixedStream)
           /\ pulled => 2 * _get_size(SubSeq(Window, 1, kept)) >= chunk_size
           /\ ~MarkInSecondHalf(Window) => ~pulled]_vars

\* the sum of the sizes of the elements of a list
RECURSIVE SizeSum(_)
SizeSum(elements) ==
  IF elements = << >> THEN 0
  ELSE _get_size(Head(elements).content) + SizeSum(Tail(elements))

\* C24: headings open chunks.  Semantic strategy on within-budget elements:
\* a Title or Heading is the first of the elements of the chunk built from
\* it, and of the buffer that holds it, never a later one; and the elements
\* a chunk is built from measure together at most chunk_size, the chunk
\* being cut before the element that would push the buffer above it.
C24_HeadingsOpenChunks ==
  (strategy = "semantic" /\ AllWithinBudget)
    => /\ \A k \in 1..Len(chunks) :
            /\ \A p \in origins[k] :
                 IsSectionBreak(result.elements[p]) => p = FirstOrigin(k)
            /\ SizeSum(OriginElements(k)) <= chunk_size
       /\ \A j \in 2..Len(current_elements) : ~IsSectionBreak(current_elements[j])

\* C24 witness: [Text, Heading, Text, Text] under a budget of two texts has
\* returned three chunks: the text before the heading, the heading with the
\* text after it, and the last text, cut off by the budget.
C24_CutByHeadingAndBudget ==
  /\ Returned /\ strategy = "semantic" /\ AllWithinBudget
  /\ Len(result.elements) = 4
  /\ IsSectionBreak(result.elements[2])
  /\ \A p \in {1, 3, 4} : ~IsSectionBreak(result.elements[p])
  /\ origins = <<{1}, {2, 3}, {4}>>

\* C25: the buffer invariant of _chunk_semantic.  After each element is
\* processed, current_size is the sum of the sizes of the elements the
\* buffer holds and is at most chunk_size; it is 0 exactly when the buffer
\* is empty (it was just flushed) or holds only elements of size zero.
C25_BufferInvariant ==
  (strategy = "semantic" /\ pc \in {"semantic", "done"})
    => /\ current_size = SizeSum(current_elements)
       /\ current_size <= chunk_size
       /\ current_size = 0
            <=> \A j \in 1..Len(current_elements) :
                  _get_size(current_elements[j].content) = 0

\* C25 witness: the budget has flushed the buffer, a chunk is out, and the
\* buffer holds the one element that did not fit, with its size.
C25_RefilledAfterFlush ==
  /\ pc = "semantic" /\ pos >= 2
  /\ Len(chunks) = 1
  /\ origins[1] = 1..(pos - 1)
  /\ _get_size(result.elements[1].content) > 0
  /\ Len(current_elements) = 1
  /\ current_size = _get_size(result.elements[pos].content)
  /\ current_size > 0
  /\ ~IsSectionBreak(result.elements[pos])

\* the sum of the sizes of str(row) over the rows of a list
RECURSIVE RowSizeSum(_)
RowSizeSum(rows) ==
  IF rows = << >> THEN 0
  ELSE _get_size(PyStrList(Head(rows))) + RowSizeSum(Tail(rows))

\* the texts render the header over consecutive groups of the data rows, in
\* order, each group holding at least one row and closed only before a row
\* that would push the header and the group above chunk_size
RECURSIVE RowsGrouped(_, _, _)
RowsGrouped(texts, header, rows) ==
  IF texts = << >> THEN rows = << >>
  ELSE \E n \in 1..Len(rows) :
         /\ Head(texts) = _table_to_markdown(<<header>> \o SubSeq(rows, 1, n))
         /\ n < Len(rows)
              => RowSizeSum(<<header>> \o SubSeq(rows, 1, n + 1)) > chunk_size
         /\ RowsGrouped(Tail(texts), header, SubSeq(rows, n + 1, Len(rows)))

\* the element at p is an oversized table with a header and data rows, and
\* _chunk_semantic has dealt with it
SplitTableAt(p) ==
  /\ OversizedMet(p)
  /\ result.elements[p].element_type = "table"
  /\ Len(result.elements[p].table_data) >= 2

\* C26: the row groups of a split table form a partition.  For an oversized
\* table with at least one data row, the data rows of the sub-chunks of
\* _split_large_table, taken in chunk order, are table_data[1:] in the
\* original order, every row in one sub-chunk; a group is closed only when
\* it holds the header and a data row and the next row would exceed
\* chunk_size.
C26_RowGroupsPartition ==
  (strategy = "semantic" /\ pc \in {"semantic", "done"})
    => \A p \in 1..Len(result.elements) :
         SplitTableAt(p)
           => RowsGrouped(TextsOf(p, 1), result.elements[p].table_data[1],
                          Tail(result.elements[p].table_data))

\* C26 witness: a table of three data rows has been split into the header
\* with the first two rows and the header with the third.
C26_TwoThenOne ==
  /\ Returned
  /\ \E p \in 1..Len(result.elements) :
       LET d == result.elements[p].table_data
       IN  /\ SplitTableAt(p)
           /\ Len(d) = 4
           /\ TextsOf(p, 1) = <<_table_to_markdown(SubSeq(d, 1, 3)),
                                _table_to_markdown(<<d[1], d[4]>>)>>

\* C27: the Fixed loop of POST /convert makes progress for every accepted
\* chunk_size (100..10000) and chunk_overlap (0..500), the overlaps that are
\* not smaller than the chunk size included, and every non-empty text: each
\* iteration leaves pos strictly larger than it found it, until pos reaches
\* len(text).
C27_ConvertLoopProgress ==
  [][(convert_file.pc = "fixed" /\ convert_file'.pc = "fixed")
       => convert_file'.pos > convert_file.pos]_vars

\* C23: rate limits hold per API key under concurrency.  Every admitted
\* request adds one to each counter of its key, so a live counter tells how
\* many requests were admitted since it was created: for any interleaving
\* of the requests the per-minute counter never exceeds limit_rpm and the
\* per-day counter never exceeds limit_rpd.
C23_LimitsEnforced ==
  /\ redis.minute <= api_key.rate_limit_rpm
  /\ redis.day <= api_key.rate_limit_rpd

\* C28: a failed conversion is recorded as FAILED.  When process_document
\* raised inside the convert_document task, the committed state of the
\* document as the task returns has status FAILED and an error_message that
\* is not empty; it is not left PENDING or PROCESSING.
C28_FailureRecorded ==
  [][(worker.pc = "failed" /\ worker'.pc = "idle")
       => /\ db'.document.status = "failed"
          /\ db'.document.error_message # << >>]_vars

\* the chunk indexes stored for the document are all different
DistinctIndexes(rows) ==
  \A i \in 1..Len(rows) : \A j \in 1..Len(rows) : rows[i] = rows[j] => i = j

\* C29: stored chunks match the document summary.  After any sequence of
\* conversions and reprocess requests, whenever the committed status of the
\* document is COMPLETED, total_chunks is the number of Chunk rows stored
\* for it and no two of these rows share an index.
C29_ChunksMatchSummary ==
  db.document.status = "completed"
    => /\ db.document.total_chunks = Len(db.chunks)
       /\ DistinctIndexes(db.chunks)

\* C30: reprocess takes effect.  Under every interleaving of the reprocess
\* request with the task it queues, the worker that runs this task reads
\* the document as PENDING and converts it again, never answering
\* "already_completed"; and a request for a document that is PENDING or
\* PROCESSING is refused with a 400 that changes neither the document nor
\* the queue.
C30_ReprocessTakesEffect ==
  [][/\ (worker' # worker /\ worker'.task = "reprocess")
          => /\ worker'.seen = "pending"
             /\ worker'.result # "already_completed"
     /\ (api.pc = "idle" /\ api' # api
           /\ db.document.status \in {"pending", "processing"})
          => /\ api'.response = 400
             /\ db' = db /\ queue' = queue]_vars

====
